---- MODULE Spec2Model ----
(***************************************************************************)
(* A model of fiber.cc: the jmp_buf_link switch protocol (begin, enter,    *)
(* leave, end), the bootstrap through setup()/makecontext, the ping/pong   *)
(* fibers and main()'s round-robin driver.                                 *)
(*                                                                         *)
(* One thread executes.  `cpu` names the stack the thread is running on;   *)
(* every stack has its own program counter pc[s] and its own automatic     *)
(* variables.  A jmp_buf holds the stack and the resume label that setjmp  *)
(* saved; longjmp and setcontext move `cpu`.  Every source statement of    *)
(* the switch protocol is one step.                                        *)
(***************************************************************************)
EXTENDS Integers, Sequences, FiniteSets, TLC

\* ------------------------------------------------------------- bounds
\* Lines written to stdout before the model stops a fiber at its next print.
MaxOut == 8
\* Jumps through a dead jmp_buf that a run makes before the model stops it.
MaxStale == 1
\* Switches of a run in which fibers end before the model stops it.
MaxSwitches == 14

\* ---------------------------------------------------------- constants
\* main(): const size_t n = 2
n == 2

Stacks == {"main", "stack0", "stack1"}
FiberStacks == {"stack0", "stack1"}
\* g_unthreaded_context and main()'s jmp[0], jmp[1]
Links == {"root", "jmp0", "jmp1"}

\* main()'s arrays jmp[], stack[] and fns[], by index
JmpAt(k) == IF k = 0 THEN "jmp0" ELSE "jmp1"
StackAt(k) == IF k = 0 THEN "stack0" ELSE "stack1"
FnAt(k) == IF k = 0 THEN "async_ping_main" ELSE "async_pong_main"

\* The line a fiber body prints: async_ping prints "ping", async_pong "pong".
LineOf(f) == IF f = "async_ping_main" THEN "ping" ELSE "pong"

\* A jmp_buf no setjmp has written.
Unset == [sp |-> "none", ip |-> "none"]
\* setup()'s initial_context before makecontext
NoContext == [f |-> "none", lo |-> 0, hi |-> 0, ss_sp |-> "none", uc_link |-> "none"]

\* ------------------------------------------------- pointers as integers
\* A 64-bit pointer is four 16-bit limbs, most significant first.  The
\* addresses of the link objects in one run: the thread-local root context
\* in the TLS block, jmp[0] and jmp[1] (208 bytes each) in main()'s frame.
Addr(l) ==
  CASE l = "root" -> <<0, 32570, 40031, 63168>>
    [] l = "jmp0" -> <<0, 32764, 58273, 45760>>
    [] l = "jmp1" -> <<0, 32764, 58273, 45968>>

\* int(q): the low 32 bits of q as a two's complement int
IntOfLow(q) ==
  IF q[3] >= 32768 THEN (q[3] - 65536) * 65536 + q[4] ELSE q[3] * 65536 + q[4]

\* int(q >> 32): the high 32 bits of q as a two's complement int
IntOfHigh(q) ==
  IF q[1] >= 32768 THEN (q[1] - 65536) * 65536 + q[2] ELSE q[1] * 65536 + q[2]

\* uint64_t(uint32_t(v)): v's 32 bits, zero-extended
ZeroExtend(v) == <<0, 0, (v \div 65536) % 65536, v % 65536>>

\* uint64_t(v) of an int v: v's 32 bits, sign-extended
SignExtend(v) ==
  LET s == IF v < 0 THEN 65535 ELSE 0
  IN  <<s, s, (v \div 65536) % 65536, v % 65536>>

\* x << 32 on 64 bits
Shl32(x) == <<x[3], x[4], 0, 0>>

RECURSIVE OrBits(_, _, _)
OrBits(a, b, k) ==
  IF k = 0 THEN 0
  ELSE (IF a % 2 = 1 \/ b % 2 = 1 THEN 1 ELSE 0)
       + 2 * OrBits(a \div 2, b \div 2, k - 1)

\* x | y on 64 bits
Or64(x, y) == [j \in 1..4 |-> OrBits(x[j], y[j], 16)]

\* The reassembly without the uint32_t cast of lo: lo is sign-extended.
Reassemble_sign_extends_lo(lo, hi) == Or64(SignExtend(lo), Shl32(SignExtend(hi)))

\* async_ping_main / async_pong_main:
\*   uintptr_t q = uint64_t(uint32_t(lo)) | uint64_t(hi) << 32
Reassemble(lo, hi) == Or64(ZeroExtend(lo), Shl32(SignExtend(hi)))

\* The null pointer, and the value of a `q` not yet computed.
NullPtr == <<0, 0, 0, 0>>

\* ----------------------------------------------------------- allocation
\* main(): size_t stack_size = 4 * 4096
stack_size == 4 * 4096

\* No allocation call made yet.
\* avail: the requested block can be allocated; small: the heap still serves
\* small requests, such as an exception's message.
NoAlloc ==
  [align |-> 0, size |-> 0, avail |-> TRUE, small |-> TRUE, r |-> "unset",
   ret |-> "none", thrown |-> "none"]

RECURSIVE IsPowerOfTwo(_)
IsPowerOfTwo(a) ==
  IF a = 1 THEN TRUE
  ELSE IF a <= 0 \/ a % 2 = 1 THEN FALSE
  ELSE IsPowerOfTwo(a \div 2)

\* posix_memalign(&ret, align, size): EINVAL unless align is a power of two
\* and a multiple of sizeof(void *), which is 8; ENOMEM when the memory is
\* not available; otherwise 0 with the block stored in ret.  On an error
\* nothing is allocated and ret is not set.
posix_memalign(align, size, avail) ==
  IF ~(IsPowerOfTwo(align) /\ align % 8 = 0) THEN [r |-> "EINVAL", ret |-> "none"]
  ELSE IF ~avail THEN [r |-> "ENOMEM", ret |-> "none"]
  ELSE [r |-> "0", ret |-> "block"]

\* ---------------------------------------------------------------- state
VARIABLES
  cpu,                \* the stack the thread executes on, or "exited" / "aborted" / "crashed"
  pc,                 \* pc[s]: where stack s executes, or where it is parked
  this,               \* this[s]: the jmp_buf_link the switch operation on stack s acts on
  prev,               \* prev[s]: begin()/enter()'s local `prev` on stack s
  i,                  \* main()'s loop index
  uc,                 \* setup()'s initial_context
  stackmem,           \* stackmem[s]: whether main()'s stack_ptr holds the memory of s
  entry,              \* entry[s]: the function and int arguments makecontext put on stack s
  param,              \* param[s]: the `link` parameter of the fiber body on stack s
  g_current_context,  \* thread_local jmp_buf_link* g_current_context
  link,               \* link[l]: jmp_buf_link::link
  jmpbuf,             \* jmpbuf[l]: jmp_buf_link::jmpbuf
  out,                \* the lines written to stdout
  hist,               \* the control transfers made so far, in order
  q,                  \* q[s]: the local `q` of setup() (on main) or of the trampoline on stack s
  alloc,              \* the allocation call in progress: its arguments, result and exception
  addr                \* addr[l]: the address of link object l in this run

vars == <<cpu, pc, this, prev, i, uc, stackmem, entry, param,
          g_current_context, link, jmpbuf, out, hist, q, alloc, addr>>

\* reinterpret_cast<jmp_buf_link *>(x): the link object at address x
LinkAtAddr(x) ==
  IF \E l \in Links : addr[l] = x
  THEN CHOOSE l \in Links : addr[l] = x
  ELSE "wild"

\* The context link main() sets up for stack s, setup(&(jmp[i]), stack[i].get(), ...),
\* and the root context for main()'s own stack.
LinkOf(s) ==
  CASE s = "main" -> "root"
    [] s = "stack0" -> "jmp0"
    [] s = "stack1" -> "jmp1"
    [] OTHER -> "none"

\* The stack a link's context runs on.
StackOfLink(l) ==
  CASE l = "root" -> "main"
    [] l = "jmp0" -> "stack0"
    [] l = "jmp1" -> "stack1"
    [] OTHER -> "none"

At(s, label) == cpu = s /\ pc[s] = label

Goto(s, label) == pc' = [pc EXCEPT ![s] = label]

\* One entry of hist: operation `op`, called on link `l` by stack `from`,
\* moved the thread to `to`; `stale` marks a jump through a dead jmp_buf.
Event(op, from, l, to, stale) ==
  [op |-> op, from |-> from, this |-> l, to |-> to, stale |-> stale]

\* hist keeps the first MaxHist transfers of a run: more than any run makes
\* before stdout holds MaxOut lines.
MaxHist == 2 * (MaxOut + MaxStale) + 4

Record(e) == IF Len(hist) < MaxHist THEN Append(hist, e) ELSE hist

\* A control transfer: the thread leaves stack s parked at `park` and
\* continues on stack `to` at label `ip`.
Transfer(s, park, to, ip, op, stale) ==
  /\ cpu' = to
  /\ pc' = [pc EXCEPT ![s] = park, ![to] = ip]
  /\ hist' = Record(Event(op, s, this[s], to, stale))

\* An uncaught exception or abort(): the process ends.
Abort(s) ==
  /\ cpu' = "aborted"
  /\ UNCHANGED <<pc, hist>>

\* Where a stack is parked while the jmp_buf with resume label ip is live:
\* inside the call that made the setjmp, in its setcontext or longjmp, which
\* does not return.
ParkOf(ip) ==
  CASE ip = "begin_ret" -> "begin_switched"
    [] ip = "enter_ret" -> "enter_switched"
    [] ip = "leave_ret" -> "leave_switched"
    [] OTHER -> "none"

\* A jmp_buf is live while the call that made the setjmp has not been left.
Live(jb) == jb.sp \in Stacks /\ pc[jb.sp] = ParkOf(jb.ip)

\* The jump faults (SIGSEGV): the process ends.
Crash(s, park, op) ==
  /\ cpu' = "crashed"
  /\ pc' = [pc EXCEPT ![s] = park]
  /\ hist' = Record(Event(op, s, this[s], "crashed", TRUE))

StaleJumps == Cardinality({k \in 1..Len(hist) : hist[k].stale})

\* longjmp(jmpbuf[l], 1) on stack s inside operation `op`.  A live jmp_buf
\* resumes its stack at the setjmp.  A jmp_buf that no setjmp has written
\* holds no stack pointer and the jump faults.  A jmp_buf whose call has been
\* left is undefined behaviour: the jump faults, or the thread continues on
\* that stack after the setjmp, in a frame that later calls may have
\* overwritten: the call's `this` is what the build left there, the pointer
\* it was or nullptr or a wild value; what runs next is given by `stale`.
\* At most MaxStale such jumps are followed.
longjmp(s, l, park, op) ==
  IF l \in Links /\ Live(jmpbuf[l])
  THEN Transfer(s, park, jmpbuf[l].sp, jmpbuf[l].ip, op, FALSE) /\ UNCHANGED this
  ELSE IF l \in Links /\ jmpbuf[l].sp \in Stacks
  THEN /\ StaleJumps < MaxStale
       /\ \/ /\ Transfer(s, park, jmpbuf[l].sp, "stale_resumed", op, TRUE)
             /\ \E t \in {this[jmpbuf[l].sp], "nullptr", "wild"} :
                  this' = [this EXCEPT ![jmpbuf[l].sp] = t]
          \/ Crash(s, park, op) /\ UNCHANGED this
  ELSE Crash(s, park, op) /\ UNCHANGED this

\* ----------------------------------------------------------------- Init
\* Process start: thread_local objects are zero-initialized, main()'s
\* automatic jmp[] is not initialized, no stack is allocated.
Init ==
  /\ cpu = "main"
  /\ pc = [s \in Stacks |-> IF s = "main" THEN "main_init" ELSE "unborn"]
  /\ this = [s \in Stacks |-> "none"]
  /\ prev = [s \in Stacks |-> "none"]
  /\ i = 0
  /\ uc = NoContext
  /\ stackmem = [s \in FiberStacks |-> FALSE]
  /\ entry = [s \in FiberStacks |-> [f |-> "none", lo |-> 0, hi |-> 0, uc_link |-> "none"]]
  /\ param = [s \in FiberStacks |-> "none"]
  /\ g_current_context = "nullptr"
  /\ link = [l \in Links |-> IF l = "root" THEN "nullptr" ELSE "indeterminate"]
  /\ jmpbuf = [l \in Links |-> Unset]
  /\ out = <<>>
  /\ hist = <<>>
  /\ q = [s \in Stacks |-> NullPtr]
  /\ alloc = NoAlloc
  /\ addr = [l \in Links |-> Addr(l)]

\* init() that clears the root link but leaves g_current_context null.
init_without_current ==
  /\ At("main", "main_init")
  /\ link' = [link EXCEPT !["root"] = "nullptr"]
  /\ Goto("main", "main_for1")
  /\ UNCHANGED <<cpu, this, prev, i, uc, stackmem, entry, param,
                 g_current_context, jmpbuf, out, hist, q, alloc, addr>>

\* ------------------------------------------------------------- init()
init ==
  /\ At("main", "main_init")
  /\ link' = [link EXCEPT !["root"] = "nullptr"]
  /\ g_current_context' = "root"
  /\ Goto("main", "main_for1")
  /\ UNCHANGED <<cpu, this, prev, i, uc, stackmem, entry, param, jmpbuf, out, hist, q, alloc, addr>>

\* ---------------------------------------------------- jmp_buf_link::begin
\* Mutant: prev is read but `this` is not made current.
begin_exchange_keeps_current(s) ==
  /\ At(s, "begin_exchange")
  /\ prev' = [prev EXCEPT ![s] = g_current_context]
  /\ Goto(s, "begin_link")
  /\ UNCHANGED <<cpu, this, i, uc, stackmem, entry, param, g_current_context,
                 link, jmpbuf, out, hist, q, alloc, addr>>

\* auto prev = std::exchange(g_current_context, this)
begin_exchange(s) ==
  /\ At(s, "begin_exchange")
  /\ prev' = [prev EXCEPT ![s] = g_current_context]
  /\ g_current_context' = this[s]
  /\ Goto(s, "begin_link")
  /\ UNCHANGED <<cpu, this, i, uc, stackmem, entry, param, link, jmpbuf, out, hist, q, alloc, addr>>

\* Mutant: the back-reference is not recorded.
begin_link_skipped(s) ==
  /\ At(s, "begin_link")
  /\ Goto(s, "begin_setjmp")
  /\ UNCHANGED <<cpu, this, prev, i, uc, stackmem, entry, param,
                 g_current_context, link, jmpbuf, out, hist, q, alloc, addr>>

\* link = prev
begin_link(s) ==
  /\ At(s, "begin_link")
  /\ link' = [link EXCEPT ![this[s]] = prev[s]]
  /\ Goto(s, "begin_setjmp")
  /\ UNCHANGED <<cpu, this, prev, i, uc, stackmem, entry, param,
                 g_current_context, jmpbuf, out, hist, q, alloc, addr>>

\* setjmp(prev->jmpbuf) == 0: the running stack's state goes into prev's jmp_buf
begin_setjmp(s) ==
  /\ At(s, "begin_setjmp")
  /\ jmpbuf' = [jmpbuf EXCEPT ![prev[s]] = [sp |-> s, ip |-> "begin_ret"]]
  /\ Goto(s, "begin_setcontext")
  /\ UNCHANGED <<cpu, this, prev, i, uc, stackmem, entry, param,
                 g_current_context, link, out, hist, q, alloc, addr>>

\* setcontext(initial_context): the entry function starts on the new stack
begin_setcontext(s) ==
  /\ At(s, "begin_setcontext")
  /\ entry' = [entry EXCEPT ![uc.ss_sp] = [f |-> uc.f, lo |-> uc.lo, hi |-> uc.hi, uc_link |-> uc.uc_link]]
  /\ Transfer(s, "begin_switched", uc.ss_sp, "trampoline", "begin", FALSE)
  /\ UNCHANGED <<this, prev, i, uc, stackmem, param, g_current_context, link,
                 jmpbuf, out, q, alloc, addr>>

\* setjmp returned 1: begin() returns into setup()
begin_ret(s) ==
  /\ At(s, "begin_ret")
  /\ Goto(s, "setup_ret")
  /\ UNCHANGED <<cpu, this, prev, i, uc, stackmem, entry, param,
                 g_current_context, link, jmpbuf, out, hist, q, alloc, addr>>

begin(s) ==
  \/ begin_exchange(s)
  \/ begin_link(s)
  \/ begin_setjmp(s)
  \/ begin_setcontext(s)
  \/ begin_ret(s)

\* ---------------------------------------------------- jmp_buf_link::enter
\* auto prev = std::exchange(g_current_context, this)
enter_exchange(s) ==
  /\ At(s, "enter_exchange")
  /\ prev' = [prev EXCEPT ![s] = g_current_context]
  /\ g_current_context' = this[s]
  /\ Goto(s, "enter_link")
  /\ UNCHANGED <<cpu, this, i, uc, stackmem, entry, param, link, jmpbuf, out, hist, q, alloc, addr>>

\* Mutant: the back-reference keeps the context of an earlier switch.
enter_link_skipped(s) ==
  /\ At(s, "enter_link")
  /\ Goto(s, "enter_setjmp")
  /\ UNCHANGED <<cpu, this, prev, i, uc, stackmem, entry, param,
                 g_current_context, link, jmpbuf, out, hist, q, alloc, addr>>

\* enter() that writes the back-link the wrong way round: prev->link = this.
enter_link_reversed(s) ==
  /\ At(s, "enter_link")
  /\ link' = [link EXCEPT ![prev[s]] = this[s]]
  /\ Goto(s, "enter_setjmp")
  /\ UNCHANGED <<cpu, this, prev, i, uc, stackmem, entry, param,
                 g_current_context, jmpbuf, out, hist, q, alloc, addr>>

\* link = prev
enter_link(s) ==
  /\ At(s, "enter_link")
  /\ link' = [link EXCEPT ![this[s]] = prev[s]]
  /\ Goto(s, "enter_setjmp")
  /\ UNCHANGED <<cpu, this, prev, i, uc, stackmem, entry, param,
                 g_current_context, jmpbuf, out, hist, q, alloc, addr>>

\* enter() that saves the caller's state in the entered context's own jmp_buf.
enter_setjmp_this(s) ==
  /\ At(s, "enter_setjmp")
  /\ jmpbuf' = [jmpbuf EXCEPT ![this[s]] = [sp |-> s, ip |-> "enter_ret"]]
  /\ Goto(s, "enter_longjmp")
  /\ UNCHANGED <<cpu, this, prev, i, uc, stackmem, entry, param,
                 g_current_context, link, out, hist, q, alloc, addr>>

\* setjmp(prev->jmpbuf) == 0
enter_setjmp(s) ==
  /\ At(s, "enter_setjmp")
  /\ jmpbuf' = [jmpbuf EXCEPT ![prev[s]] = [sp |-> s, ip |-> "enter_ret"]]
  /\ Goto(s, "enter_longjmp")
  /\ UNCHANGED <<cpu, this, prev, i, uc, stackmem, entry, param,
                 g_current_context, link, out, hist, q, alloc, addr>>

\* Mutant: the jump goes through the caller's jmp_buf, not the target's.
enter_longjmp_prev(s) ==
  /\ At(s, "enter_longjmp")
  /\ longjmp(s, prev[s], "enter_switched", "enter")
  /\ UNCHANGED <<prev, i, uc, stackmem, entry, param, g_current_context,
                 link, jmpbuf, out, q, alloc, addr>>

\* enter() that saves the caller's state and returns without jumping.
enter_longjmp_noop(s) ==
  /\ At(s, "enter_longjmp")
  /\ Goto(s, "enter_ret")
  /\ UNCHANGED <<cpu, this, prev, i, uc, stackmem, entry, param,
                 g_current_context, link, jmpbuf, out, hist, q, alloc, addr>>

\* longjmp(jmpbuf, 1)
enter_longjmp(s) ==
  /\ At(s, "enter_longjmp")
  /\ longjmp(s, this[s], "enter_switched", "enter")
  /\ UNCHANGED <<prev, i, uc, stackmem, entry, param, g_current_context,
                 link, jmpbuf, out, q, alloc, addr>>

\* setjmp returned 1: enter() returns to its caller
enter_ret(s) ==
  /\ At(s, "enter_ret")
  /\ Goto(s, IF s = "main" THEN "main_for2_next" ELSE "fiber_body")
  /\ UNCHANGED <<cpu, this, prev, i, uc, stackmem, entry, param,
                 g_current_context, link, jmpbuf, out, hist, q, alloc, addr>>

enter(s) ==
  \/ enter_exchange(s)
  \/ enter_link(s)
  \/ enter_setjmp(s)
  \/ enter_longjmp(s)
  \/ enter_ret(s)

\* ---------------------------------------------------- jmp_buf_link::leave
\* Mutant: leave() yields to the root context, not to the back-reference.
leave_assign_root(s) ==
  /\ At(s, "leave_assign")
  /\ g_current_context' = "root"
  /\ Goto(s, "leave_setjmp")
  /\ UNCHANGED <<cpu, this, prev, i, uc, stackmem, entry, param, link, jmpbuf,
                 out, hist, q, alloc, addr>>

\* g_current_context = link
leave_assign(s) ==
  /\ At(s, "leave_assign")
  /\ g_current_context' = link[this[s]]
  /\ Goto(s, "leave_setjmp")
  /\ UNCHANGED <<cpu, this, prev, i, uc, stackmem, entry, param, link, jmpbuf,
                 out, hist, q, alloc, addr>>

\* Mutant: leave() saves no resume point.
leave_setjmp_skipped(s) ==
  /\ At(s, "leave_setjmp")
  /\ Goto(s, "leave_longjmp")
  /\ UNCHANGED <<cpu, this, prev, i, uc, stackmem, entry, param,
                 g_current_context, link, jmpbuf, out, hist, q, alloc, addr>>

\* setjmp(jmpbuf) == 0
leave_setjmp(s) ==
  /\ At(s, "leave_setjmp")
  /\ jmpbuf' = [jmpbuf EXCEPT ![this[s]] = [sp |-> s, ip |-> "leave_ret"]]
  /\ Goto(s, "leave_longjmp")
  /\ UNCHANGED <<cpu, this, prev, i, uc, stackmem, entry, param,
                 g_current_context, link, out, hist, q, alloc, addr>>

\* longjmp(g_current_context->jmpbuf, 1)
leave_longjmp(s) ==
  /\ At(s, "leave_longjmp")
  /\ longjmp(s, g_current_context, "leave_switched", "leave")
  /\ UNCHANGED <<prev, i, uc, stackmem, entry, param, g_current_context,
                 link, jmpbuf, out, q, alloc, addr>>

\* setjmp returned 1: leave() returns into the fiber body's loop
leave_ret(s) ==
  /\ At(s, "leave_ret")
  /\ Goto(s, "fiber_print")
  /\ UNCHANGED <<cpu, this, prev, i, uc, stackmem, entry, param,
                 g_current_context, link, jmpbuf, out, hist, q, alloc, addr>>

leave(s) ==
  \/ leave_assign(s)
  \/ leave_setjmp(s)
  \/ leave_longjmp(s)
  \/ leave_ret(s)

\* ------------------------------------------------------------ make_stack
\* aligned_alloc returns the block, or nullptr and make_stack throws
\* std::bad_alloc, which main() does not catch.
make_stack ==
  /\ At("main", "main_make_stack")
  /\ \E mem \in {"block", "nullptr"} :
       /\ alloc' = [align |-> 16, size |-> stack_size, avail |-> mem # "nullptr",
                    small |-> alloc.small, r |-> "unset",
                    ret |-> IF mem = "nullptr" THEN "none" ELSE "block",
                    thrown |-> IF mem = "nullptr" THEN "bad_alloc" ELSE "none"]
       /\ IF mem = "nullptr"
          THEN Abort("main") /\ UNCHANGED stackmem
          ELSE /\ stackmem' = [stackmem EXCEPT ![StackAt(i)] = TRUE]
               /\ Goto("main", "setup_getcontext")
               /\ UNCHANGED <<cpu, hist>>
  /\ UNCHANGED <<this, prev, i, uc, entry, param, g_current_context, link,
                 jmpbuf, out, q, addr>>

\* ----------------------------------------------------------------- setup
\* getcontext(&initial_context); throw_system_error_on(r == -1, "getcontext")
setup_getcontext ==
  /\ At("main", "setup_getcontext")
  /\ q' = [q EXCEPT !["main"] = addr[JmpAt(i)]]
  /\ \E r \in {0, -1} :
       IF r = -1
       THEN Abort("main") /\ UNCHANGED <<uc, this>>
       ELSE /\ this' = [this EXCEPT !["main"] = JmpAt(i)]
            /\ uc' = NoContext
            /\ Goto("main", "setup_makecontext")
            /\ UNCHANGED <<cpu, hist>>
  /\ UNCHANGED <<prev, i, stackmem, entry, param, g_current_context, link,
                 jmpbuf, out, alloc, addr>>

\* uc_stack, uc_link = nullptr, makecontext(&initial_context, f, 2, int(q), int(q >> 32));
\* then ctx->begin(&initial_context, stack, stack_size) is called
setup_makecontext ==
  /\ At("main", "setup_makecontext")
  /\ uc' = [f |-> FnAt(i),
            lo |-> IntOfLow(q["main"]),
            hi |-> IntOfHigh(q["main"]),
            ss_sp |-> StackAt(i),
            uc_link |-> "nullptr"]
  /\ Goto("main", "begin_exchange")
  /\ UNCHANGED <<cpu, this, prev, i, stackmem, entry, param, g_current_context,
                 link, jmpbuf, out, hist, q, alloc, addr>>

\* begin() has returned; setup() returns into main()'s first loop
setup_ret ==
  /\ At("main", "setup_ret")
  /\ Goto("main", "main_for1_next")
  /\ UNCHANGED <<cpu, this, prev, i, uc, stackmem, entry, param,
                 g_current_context, link, jmpbuf, out, hist, q, alloc, addr>>

setup ==
  \/ setup_getcontext
  \/ setup_makecontext
  \/ begin("main")
  \/ setup_ret

\* ------------------------------------ async_ping_main / async_pong_main
\* The trampoline reassembles the pointer and calls the fiber body with it.
trampoline(s) ==
  /\ At(s, "trampoline")
  /\ q' = [q EXCEPT ![s] = Reassemble(entry[s].lo, entry[s].hi)]
  /\ param' = [param EXCEPT ![s] = LinkAtAddr(q'[s])]
  /\ Goto(s, "fiber_print")
  /\ UNCHANGED <<cpu, this, prev, i, uc, stackmem, entry, g_current_context,
                 link, jmpbuf, out, hist, alloc, addr>>

\* ------------------------------------------------ async_ping / async_pong
\* cout << "ping" << endl
fiber_print(s) ==
  /\ At(s, "fiber_print")
  /\ Len(out) < MaxOut
  /\ out' = Append(out, LineOf(entry[s].f))
  /\ Goto(s, "fiber_body")
  /\ UNCHANGED <<cpu, this, prev, i, uc, stackmem, entry, param,
                 g_current_context, link, jmpbuf, hist, q, alloc, addr>>

\* A fiber body that resets g_current_context itself before it calls leave().
fiber_yield_sets_current(s) ==
  /\ At(s, "fiber_body")
  /\ this' = [this EXCEPT ![s] = param[s]]
  /\ g_current_context' = "root"
  /\ Goto(s, "leave_assign")
  /\ UNCHANGED <<cpu, prev, i, uc, stackmem, entry, param,
                 link, jmpbuf, out, hist, q, alloc, addr>>

\* link->leave()
fiber_yield(s) ==
  /\ At(s, "fiber_body")
  /\ this' = [this EXCEPT ![s] = param[s]]
  /\ Goto(s, "leave_assign")
  /\ UNCHANGED <<cpu, prev, i, uc, stackmem, entry, param, g_current_context,
                 link, jmpbuf, out, hist, q, alloc, addr>>

async_ping(s) ==
  \/ fiber_print(s)
  \/ fiber_yield(s)
  \/ leave(s)

\* main() whose first loop launches only jmp[0].
main_for1_one ==
  /\ At("main", "main_for1")
  /\ IF i < 1
     THEN Goto("main", "main_make_stack") /\ UNCHANGED i
     ELSE Goto("main", "main_for2") /\ i' = 0
  /\ UNCHANGED <<cpu, this, prev, uc, stackmem, entry, param, g_current_context,
                 link, jmpbuf, out, hist, q, alloc, addr>>

\* ------------------------------------------------------------------ main
\* for (size_t i = 0; i < 2; i++): the loop test
main_for1 ==
  /\ At("main", "main_for1")
  /\ IF i < 2
     THEN Goto("main", "main_make_stack") /\ UNCHANGED i
     ELSE Goto("main", "main_for2") /\ i' = 0
  /\ UNCHANGED <<cpu, this, prev, uc, stackmem, entry, param, g_current_context,
                 link, jmpbuf, out, hist, q, alloc, addr>>

\* i++
main_for1_next ==
  /\ At("main", "main_for1_next")
  /\ i' = i + 1
  /\ Goto("main", "main_for1")
  /\ UNCHANGED <<cpu, this, prev, uc, stackmem, entry, param, g_current_context,
                 link, jmpbuf, out, hist, q, alloc, addr>>

\* jmp[i].enter()
main_for2 ==
  /\ At("main", "main_for2")
  /\ this' = [this EXCEPT !["main"] = JmpAt(i)]
  /\ Goto("main", "enter_exchange")
  /\ UNCHANGED <<cpu, prev, i, uc, stackmem, entry, param, g_current_context,
                 link, jmpbuf, out, hist, q, alloc, addr>>

\* Mutant: the loop index does not advance.
main_for2_next_stuck ==
  /\ At("main", "main_for2_next")
  /\ i' = i
  /\ Goto("main", "main_for2")
  /\ UNCHANGED <<cpu, this, prev, uc, stackmem, entry, param, g_current_context,
                 link, jmpbuf, out, hist, q, alloc, addr>>

\* i = (i + 1) % n
main_for2_next ==
  /\ At("main", "main_for2_next")
  /\ i' = (i + 1) % n
  /\ Goto("main", "main_for2")
  /\ UNCHANGED <<cpu, this, prev, uc, stackmem, entry, param, g_current_context,
                 link, jmpbuf, out, hist, q, alloc, addr>>

main ==
  \/ init
  \/ main_for1
  \/ make_stack
  \/ setup
  \/ main_for1_next
  \/ main_for2
  \/ enter("main")
  \/ main_for2_next

\* ------------------------------------------------------ the program
Next ==
  \/ main
  \/ \E s \in FiberStacks : trampoline(s)
  \/ \E s \in FiberStacks : async_ping(s)

Spec == Init /\ [][Next]_vars

\* end() written like leave(): it also saves the caller's state in its jmp_buf.
end_assign_saves(s) ==
  /\ At(s, "end_assign")
  /\ g_current_context' = link[this[s]]
  /\ jmpbuf' = [jmpbuf EXCEPT ![this[s]] = [sp |-> s, ip |-> "leave_ret"]]
  /\ Goto(s, "end_longjmp")
  /\ UNCHANGED <<cpu, this, prev, i, uc, stackmem, entry, param, link,
                 out, hist, q, alloc, addr>>

\* ------------------------------------------------------- jmp_buf_link::end
\* g_current_context = link
end_assign(s) ==
  /\ At(s, "end_assign")
  /\ g_current_context' = link[this[s]]
  /\ Goto(s, "end_longjmp")
  /\ UNCHANGED <<cpu, this, prev, i, uc, stackmem, entry, param, link, jmpbuf,
                 out, hist, q, alloc, addr>>

\* longjmp(g_current_context->jmpbuf, 1): no setjmp came before it
end_longjmp(s) ==
  /\ At(s, "end_longjmp")
  /\ longjmp(s, g_current_context, "end_switched", "end")
  /\ UNCHANGED <<prev, i, uc, stackmem, entry, param, g_current_context,
                 link, jmpbuf, out, q, alloc, addr>>

end(s) ==
  \/ end_assign(s)
  \/ end_longjmp(s)

\* ------------------------------------------------- the protocol's callers
\* The protocol under any driver and any fiber body.  main() is kept but for
\* the order of its enter() calls; a fiber body prints on every activation
\* and then yields with leave() as async_ping does, or resumes another
\* fiber that has yielded, or returns.

\* A link whose fiber has yielded through leave() and has not been resumed.
Yielded(l) ==
  /\ l \in Links
  /\ jmpbuf[l].ip = "leave_ret"
  /\ Live(jmpbuf[l])
  /\ LinkOf(jmpbuf[l].sp) = l

\* main()'s second loop with any next index in place of (i + 1) % n
main_any_next ==
  /\ At("main", "main_for2_next")
  /\ \E k \in 0..(n - 1) : i' = k
  /\ Goto("main", "main_for2")
  /\ UNCHANGED <<cpu, this, prev, uc, stackmem, entry, param, g_current_context,
                 link, jmpbuf, out, hist, q, alloc, addr>>

\* A fiber body calls enter() on another fiber's link that has yielded.
fiber_enter(s) ==
  /\ At(s, "fiber_body")
  /\ \E l \in Links \ {"root", param[s]} :
       /\ Yielded(l)
       /\ this' = [this EXCEPT ![s] = l]
  /\ Goto(s, "enter_exchange")
  /\ UNCHANGED <<cpu, prev, i, uc, stackmem, entry, param, g_current_context,
                 link, jmpbuf, out, hist, q, alloc, addr>>

\* A fiber body returns into its trampoline.
fiber_return(s) ==
  /\ At(s, "fiber_body")
  /\ Goto(s, "trampoline_ret")
  /\ UNCHANGED <<cpu, this, prev, i, uc, stackmem, entry, param,
                 g_current_context, link, jmpbuf, out, hist, q, alloc, addr>>

\* async_ping_main / async_pong_main return after the body: the context was
\* made with uc_link = nullptr, so the thread, here the process, exits.
trampoline_ret(s) ==
  /\ At(s, "trampoline_ret")
  /\ entry[s].uc_link = "nullptr"
  /\ cpu' = "exited"
  /\ hist' = Record(Event("exit", s, param[s], "exited", FALSE))
  /\ UNCHANGED <<pc, this, prev, i, uc, stackmem, entry, param,
                 g_current_context, link, jmpbuf, out, q, alloc, addr>>

driver ==
  \/ init
  \/ main_for1
  \/ make_stack
  \/ setup
  \/ main_for1_next
  \/ main_for2
  \/ enter("main")
  \/ main_any_next

fiber(s) ==
  \/ trampoline(s)
  \/ async_ping(s)
  \/ fiber_enter(s)
  \/ enter(s)
  \/ fiber_return(s)

LibNext ==
  \/ driver
  \/ \E s \in FiberStacks : fiber(s)
  \/ \E s \in FiberStacks : trampoline_ret(s)

LibSpec == Init /\ [][LibNext]_vars

\* ------------------------------------------- after a dead jmp_buf's jump
\* The thread runs on stack s after the setjmp of a call that was left, in
\* a frame later calls may have overwritten: what follows depends on the
\* build and on what the stack holds.
StaleLabels == {"stale_resumed", "stale_printed"}

\* The return, or a use of the dead frame, faults (SIGSEGV).
stale_fault(s) ==
  /\ cpu = s
  /\ pc[s] \in StaleLabels
  /\ Crash(s, "stale_switched", "fault")
  /\ UNCHANGED <<this, prev, i, uc, stackmem, entry, param, g_current_context,
                 link, jmpbuf, out, q, alloc, addr>>

\* Or the return lands at a print of a body, this fiber's or the other's.
stale_print(s) ==
  /\ At(s, "stale_resumed")
  /\ Len(out) < MaxOut
  /\ \E w \in {"ping", "pong"} : out' = Append(out, w)
  /\ Goto(s, "stale_printed")
  /\ UNCHANGED <<cpu, this, prev, i, uc, stackmem, entry, param,
                 g_current_context, link, jmpbuf, hist, q, alloc, addr>>

\* Or the return lands at the end of the wrapper and the process exits.
stale_exit(s) ==
  /\ At(s, "stale_resumed")
  /\ cpu' = "exited"
  /\ hist' = Record(Event("exit", s, this[s], "exited", FALSE))
  /\ UNCHANGED <<pc, this, prev, i, uc, stackmem, entry, param,
                 g_current_context, link, jmpbuf, out, q, alloc, addr>>

\* Or the return lands in the fiber's body, which goes on with its own
\* `link`, whatever the dead frame holds: it leaves, enters or returns.
stale_continue(s) ==
  /\ cpu = s
  /\ pc[s] \in StaleLabels
  /\ Goto(s, "fiber_body")
  /\ UNCHANGED <<cpu, this, prev, i, uc, stackmem, entry, param,
                 g_current_context, link, jmpbuf, out, hist, q, alloc, addr>>

stale(s) ==
  \/ stale_fault(s)
  \/ stale_print(s)
  \/ stale_exit(s)
  \/ stale_continue(s)

\* The same callers with the bootstrap wrapper of the specification: when the
\* entry function returns, the wrapper calls end() on the fiber's context.
wrapper_end(s) ==
  /\ At(s, "trampoline_ret")
  /\ this' = [this EXCEPT ![s] = param[s]]
  /\ Goto(s, "end_assign")
  /\ UNCHANGED <<cpu, prev, i, uc, stackmem, entry, param, g_current_context,
                 link, jmpbuf, out, hist, q, alloc, addr>>

\* A run in which fibers end is followed for its first MaxSwitches switches.
EndNext ==
  /\ Len(hist) < MaxSwitches
  /\ \/ driver
     \/ \E s \in FiberStacks : fiber(s)
     \/ \E s \in FiberStacks : wrapper_end(s)
     \/ \E s \in FiberStacks : end(s)
     \/ \E s \in FiberStacks : stale(s)

EndSpec == Init /\ [][EndNext]_vars

\* ------------------------------------------------------------ properties
\* The labels inside begin(), enter(), leave() and end().
SwitchLabels ==
  {"begin_exchange", "begin_link", "begin_setjmp", "begin_setcontext", "begin_ret",
   "enter_exchange", "enter_link", "enter_setjmp", "enter_longjmp", "enter_ret",
   "leave_assign", "leave_setjmp", "leave_longjmp", "leave_ret",
   "end_assign", "end_longjmp"}

\* The labels of a stack the thread has jumped away from.
ParkLabels == {"begin_switched", "enter_switched", "leave_switched", "end_switched"}

Launched(s) == pc[s] # "unborn"

\* A stack that has started and is not parked in a switch.
Executing(s) == Launched(s) /\ pc[s] \notin ParkLabels

Alive == cpu \in Stacks

LastEvent == hist[Len(hist)]

\* The begin()/enter() calls that moved the thread, in order, by target link.
RECURSIVE CallsOf(_)
CallsOf(h) ==
  IF h = <<>> THEN <<>>
  ELSE LET e == h[Len(h)]
           r == CallsOf(SubSeq(h, 1, Len(h) - 1))
       IN  IF e.op \in {"begin", "enter"} THEN Append(r, e.this) ELSE r

\* The fiber activations, in order: every activation prints one line.
Activations == [k \in 1..Len(out) |-> IF out[k] = "ping" THEN "jmp0" ELSE "jmp1"]

EnterCount == Cardinality({k \in 1..Len(hist) : hist[k].op = "enter"})

\* C1: while the program runs after init(), exactly one of the three stacks
\* is executing and it is the one the thread is on; outside a switch
\* operation g_current_context is that stack's context link; every other
\* launched stack is parked inside the switch call whose setjmp wrote its
\* link's jmp_buf.
C1_OneRunning ==
  (Alive /\ pc["main"] # "main_init") =>
    /\ {s \in Stacks : Executing(s)} = {cpu}
    /\ (pc[cpu] \notin SwitchLabels => g_current_context = LinkOf(cpu))
    /\ \A s \in Stacks \ {cpu} :
         Launched(s) =>
           /\ pc[s] \in ParkLabels
           /\ jmpbuf[LinkOf(s)].sp = s
           /\ Live(jmpbuf[LinkOf(s)])

\* C1 witness: in the enter loop, the pong fiber runs its body while main
\* and the ping fiber are parked.
C1_Witness ==
  /\ cpu = "stack1"
  /\ pc["stack1"] = "fiber_body"
  /\ pc["main"] = "enter_switched"
  /\ pc["stack0"] = "leave_switched"
  /\ Len(out) >= 4

\* C8: stdout is ping, pong, ping, pong, ...; and each time main() is about
\* to start a pass of the enter loop, after N passes over the two fibers (the
\* pass made by begin() in setup counted), exactly 2N lines are out.
C8_PingPong ==
  /\ \A k \in 1..Len(out) : out[k] = (IF k % 2 = 1 THEN "ping" ELSE "pong")
  /\ (At("main", "main_for2") /\ i = 0) =>
       /\ EnterCount % 2 = 0
       /\ Len(out) = 2 * (1 + EnterCount \div 2)

\* C8 witness: three passes done, six lines out.
C8_Witness ==
  /\ At("main", "main_for2")
  /\ i = 0
  /\ EnterCount = 4
  /\ out = <<"ping", "pong", "ping", "pong", "ping", "pong">>

\* The latest begin()/enter() in h that moved the thread onto stack s.
LastCallInto(h, s) ==
  LET K == {k \in 1..Len(h) : h[k].to = s /\ h[k].op \in {"begin", "enter"}}
  IN  h[CHOOSE k \in K : \A j \in K : j <= k]

\* The latest transfer in h that moved the thread off stack s.
LastOutOf(h, s) ==
  LET K == {k \in 1..Len(h) : h[k].from = s}
  IN  h[CHOOSE k \in K : \A j \in K : j <= k]

LeaveCount(h, s) ==
  Cardinality({k \in 1..Len(h) : h[k].op = "leave" /\ h[k].from = s})

\* C2: enter() on a context X that has yielded, called on stack s whose
\* context P was current: at the jump X.link is P, g_current_context is X,
\* P's jmp_buf holds s at the return of this enter() and s is parked there,
\* and the thread continues on X's stack at the return of the setjmp of X's
\* latest leave(), with X's frame as it was.
C2_Enter ==
  [][\A s \in Stacks :
       At(s, "enter_longjmp") =>
         LET X == this[s]
             xs == StackOfLink(this[s])
         IN  /\ Yielded(X)
             /\ prev[s] = LinkOf(s)
             /\ link'[X] = prev[s]
             /\ g_current_context' = X
             /\ jmpbuf'[prev[s]] = [sp |-> s, ip |-> "enter_ret"]
             /\ pc'[s] = "enter_switched"
             /\ cpu' = xs
             /\ LastOutOf(hist, xs).op = "leave"
             /\ pc'[xs] = "leave_ret"
             /\ this'[xs] = this[xs]
             /\ param'[xs] = param[xs]
             /\ entry'[xs] = entry[xs]]_vars

\* C2 witness: the pong fiber has entered the ping fiber, which resumes
\* after its leave() with the pong fiber as its link.
C2_Witness ==
  /\ hist # <<>>
  /\ LastEvent.op = "enter"
  /\ LastEvent.from = "stack1"
  /\ cpu = "stack0"
  /\ pc["stack0"] = "leave_ret"
  /\ link["jmp0"] = "jmp1"
  /\ g_current_context = "jmp0"

\* C3: leave() of the running context X on stack s: at the jump
\* g_current_context is X.link, X's jmp_buf holds s at the return of this
\* leave(), and the thread continues on the stack of X.link at the return of
\* the begin() or enter() by which that stack last moved the thread onto s,
\* with that caller's automatic variables unchanged.
C3_Leave ==
  [][\A s \in Stacks :
       At(s, "leave_longjmp") =>
         LET X == this[s]
             ls == StackOfLink(link[this[s]])
             e == LastCallInto(hist, s)
         IN  /\ X = LinkOf(s)
             /\ g_current_context' = link[X]
             /\ jmpbuf'[X] = [sp |-> s, ip |-> "leave_ret"]
             /\ pc'[s] = "leave_switched"
             /\ cpu' = ls
             /\ e.from = ls
             /\ e.this = X
             /\ pc'[ls] = (IF e.op = "begin" THEN "begin_ret" ELSE "enter_ret")
             /\ this'[ls] = this[ls]
             /\ prev'[ls] = prev[ls]
             /\ i' = i
             /\ uc' = uc]_vars

\* C3 witness: the ping fiber, entered by the pong fiber, has left and the
\* pong fiber continues at the return of its enter().
C3_Witness ==
  /\ hist # <<>>
  /\ LastEvent.op = "leave"
  /\ LastEvent.from = "stack0"
  /\ cpu = "stack1"
  /\ pc["stack1"] = "enter_ret"
  /\ g_current_context = "jmp1"
  /\ jmpbuf["jmp0"] = [sp |-> "stack0", ip |-> "leave_ret"]

\* C4: begin() on a context X that has not run, called on stack s: at
\* setcontext X.link is the caller's context, g_current_context is X, and
\* X's entry function starts on X's own allocated stack; and the thread
\* comes back into that begin() only by X's first leave() or by the end()
\* that follows the return of X's entry function.
C4_Begin ==
  [][/\ \A s \in Stacks :
          At(s, "begin_setcontext") =>
            LET X == this[s]
                xs == uc.ss_sp
            IN  /\ xs = StackOfLink(X)
                /\ stackmem[xs]
                /\ pc[xs] = "unborn"
                /\ link'[X] = LinkOf(s)
                /\ g_current_context' = X
                /\ cpu' = xs
                /\ pc'[xs] = "trampoline"
                /\ entry'[xs].f = uc.f
                /\ pc'[s] = "begin_switched"
     /\ \A s \in Stacks :
          (pc[s] = "begin_switched" /\ cpu' = s) =>
            LET xs == StackOfLink(this[s])
                e == hist'[Len(hist')]
            IN  /\ pc'[s] = "begin_ret"
                /\ e.from = xs
                /\ \/ e.op = "leave" /\ LeaveCount(hist', xs) = 1
                   \/ e.op = "end" /\ pc[xs] = "end_longjmp"]_vars

\* C4 witness: begin() on jmp[1] returns in main() after the pong fiber,
\* which first resumed the ping fiber, made its first leave().
C4_Witness ==
  /\ At("main", "begin_ret")
  /\ this["main"] = "jmp1"
  /\ LastEvent.op = "leave"
  /\ LastEvent.from = "stack1"
  /\ Len(out) >= 3

\* The entry function on stack s has returned and its trampoline has run on.
Returned(s) == pc[s] = "trampoline_ret" /\ cpu # s

\* C5 (as claimed): once a fiber's entry function has returned and its
\* bootstrap wrapper has run, end() was called on the fiber's stack and the
\* thread is running on the stack of the fiber's back-reference.
C5_WrapperCallsEnd ==
  \A s \in FiberStacks :
    Returned(s) =>
      /\ \E k \in 1..Len(hist) : hist[k].op = "end" /\ hist[k].from = s
      /\ Alive

\* C6 (as claimed): no transfer moves the thread onto a stack whose context
\* has ended; an enter() on it is caught instead.
C6_NoReentry ==
  \A j \in 1..Len(hist) : \A k \in 1..Len(hist) :
    (j < k /\ hist[j].op = "end") => hist[k].to # hist[j].from

\* The contexts entered and not yet left, outermost first, as the calls in h
\* name them: begin()/enter() pushes its target, leave()/end() pops.
RECURSIVE Chain(_)
Chain(h) ==
  IF h = <<>> THEN <<"main">>
  ELSE LET e == h[Len(h)]
           c == Chain(SubSeq(h, 1, Len(h) - 1))
       IN  IF e.op \in {"begin", "enter"} THEN Append(c, StackOfLink(e.this))
           ELSE IF e.op \in {"leave", "end"} /\ Len(c) > 1 THEN SubSeq(c, 1, Len(c) - 1)
           ELSE c

HasCallInto(h, s) ==
  \E k \in 1..Len(h) : h[k].to = s /\ h[k].op \in {"begin", "enter"}

\* A begin()/enter() on link X has written X.link and has not jumped yet.
SwitchingInto(X) ==
  /\ Alive
  /\ pc[cpu] \in {"begin_setjmp", "begin_setcontext", "enter_setjmp", "enter_longjmp"}
  /\ this[cpu] = X

\* C7: a context's link is the context of the stack whose begin()/enter()
\* last moved the thread onto it; every context in the chain of pending
\* enters links to the one entered before it; and the thread is always on
\* the innermost context of that chain, so leave() unwinds the chain in the
\* reverse order of the enters.
C7_ReverseOrder ==
  Alive =>
    LET c == Chain(hist)
    IN  /\ cpu = c[Len(c)]
        /\ \A k \in 2..Len(c) : link[LinkOf(c[k])] = LinkOf(c[k - 1])
        /\ \A s \in FiberStacks :
             (HasCallInto(hist, s) /\ ~SwitchingInto(LinkOf(s))) =>
               link[LinkOf(s)] = LinkOf(LastCallInto(hist, s).from)

\* C7 witness: main entered pong, pong entered ping (launched by the root,
\* now linked to pong), ping left to pong and pong left to main.
C7_Witness ==
  /\ Len(hist) >= 4
  /\ LET m == Len(hist)
     IN  /\ hist[m - 3].op = "enter" /\ hist[m - 3].from = "main" /\ hist[m - 3].to = "stack1"
         /\ hist[m - 2].op = "enter" /\ hist[m - 2].from = "stack1" /\ hist[m - 2].to = "stack0"
         /\ hist[m - 1].op = "leave" /\ hist[m - 1].from = "stack0" /\ hist[m - 1].to = "stack1"
         /\ hist[m].op = "leave" /\ hist[m].from = "stack1" /\ hist[m].to = "main"
  /\ link["jmp0"] = "jmp1"
  /\ cpu = "main"

\* C9: the fiber activations, in order, are the targets of the
\* begin()/enter() calls, in order: never more activations than calls, at
\* most the latest call not yet counted by its target, and none missing
\* once the thread runs anywhere but at the start of an activation.
C9_CallOrder ==
  LET calls == CallsOf(hist)
  IN  /\ Len(out) <= Len(calls)
      /\ Len(calls) <= Len(out) + 1
      /\ \A k \in 1..Len(out) : Activations[k] = calls[k]
      /\ (Alive /\ pc[cpu] \notin {"trampoline", "leave_ret", "fiber_print"}) =>
           Len(calls) = Len(out)

\* C9 witness: after setup main() entered ping, ping, pong, and the fibers
\* counted in that order.
C9_Witness ==
  /\ At("main", "main_for2_next")
  /\ CallsOf(hist) = <<"jmp0", "jmp1", "jmp0", "jmp0", "jmp1">>
  /\ Activations = CallsOf(hist)
  /\ \A k \in 1..Len(hist) : hist[k].op = "enter" => hist[k].from = "main"

TransfersInto(h, s) ==
  Cardinality({k \in 1..Len(h) : h[k].to = s /\ h[k].op \in {"begin", "enter"}})

TransfersOutOf(h, s) ==
  Cardinality({k \in 1..Len(h) : h[k].from = s /\ h[k].op \in {"leave", "end"}})

\* C10 (as claimed): a fiber that called leave() k times and then returned
\* was entered k+1 times (begin and k enters) and left k+1 times (k leaves
\* and one end).
C10_Balanced ==
  \A s \in FiberStacks :
    Returned(s) =>
      /\ TransfersInto(hist, s) = LeaveCount(hist, s) + 1
      /\ TransfersOutOf(hist, s) = LeaveCount(hist, s) + 1

\* ===================================================== pointer round trip
\* The values a limb of the pointer takes: the ends of the range and the
\* values around the sign bit.
LimbVals == {0, 1, 32767, 32768, 65535}
Pointers == {<<a, b, c, d>> : a \in LimbVals, b \in LimbVals, c \in LimbVals, d \in LimbVals}

\* setup(&jmp[0], ...) after its getcontext, with jmp[0] at any address v:
\* q is v and the trampoline's cast of v is jmp[0].
SplitInit ==
  /\ cpu = "main"
  /\ pc = [s \in Stacks |-> IF s = "main" THEN "setup_makecontext" ELSE "unborn"]
  /\ this = [s \in Stacks |-> IF s = "main" THEN "jmp0" ELSE "none"]
  /\ prev = [s \in Stacks |-> "none"]
  /\ i = 0
  /\ uc = NoContext
  /\ stackmem = [s \in FiberStacks |-> s = "stack0"]
  /\ entry = [s \in FiberStacks |-> [f |-> "none", lo |-> 0, hi |-> 0, uc_link |-> "none"]]
  /\ param = [s \in FiberStacks |-> "none"]
  /\ g_current_context = "root"
  /\ link = [l \in Links |-> IF l = "root" THEN "nullptr" ELSE "indeterminate"]
  /\ jmpbuf = [l \in Links |-> Unset]
  /\ out = <<>>
  /\ hist = <<>>
  /\ \E v \in Pointers :
       /\ addr = [l \in Links |-> IF l = "jmp0" THEN v ELSE Addr(l)]
       /\ q = [s \in Stacks |-> IF s = "main" THEN v ELSE NullPtr]
  /\ alloc = [NoAlloc EXCEPT !.align = 16, !.size = stack_size, !.ret = "block"]

\* From makecontext through begin() to the trampoline's reassembly.
SplitNext ==
  \/ setup_makecontext
  \/ begin_exchange("main")
  \/ begin_link("main")
  \/ begin_setjmp("main")
  \/ begin_setcontext("main")
  \/ \E s \in FiberStacks : trampoline(s)

SplitSpec == SplitInit /\ [][SplitNext]_vars

\* C11: the pointer the trampoline reassembles from the two int arguments is
\* the pointer setup() split, for every 64-bit value, negative halves
\* included, and the body is called with the link setup() was called on.
C11_RoundTrip ==
  \A s \in FiberStacks :
    pc[s] = "fiber_print" => (q[s] = q["main"] /\ param[s] = this["main"])

\* A pointer both of whose halves have the top bit set has made the round trip.
C11_Witness ==
  /\ pc["stack0"] = "fiber_print"
  /\ q["main"][1] >= 32768
  /\ q["main"][3] >= 32768
  /\ entry["stack0"].lo < 0
  /\ entry["stack0"].hi < 0
  /\ q["stack0"] = q["main"]
  /\ param["stack0"] = "jmp0"

\* ================================================================ init()
\* A switch operation is in progress or has been made.
SwitchStarted ==
  \/ hist # <<>>
  \/ \E s \in Stacks : pc[s] \in SwitchLabels \cup ParkLabels

\* C12: init() runs once, before any begin() or enter(): while it has not
\* run no switch has started, its step leaves g_current_context naming the
\* root context with the root's link null, and it is never run again.
C12_InitOnce ==
  [][/\ pc["main"] = "main_init" =>
          /\ ~SwitchStarted
          /\ g_current_context' = "root"
          /\ link'["root"] = "nullptr"
          /\ pc'["main"] # "main_init"
     /\ pc["main"] # "main_init" => pc'["main"] # "main_init"
     /\ SwitchStarted' => pc'["main"] # "main_init"]_vars

\* init() has run and the first begin() is under way.
C12_Witness ==
  /\ At("main", "begin_exchange")
  /\ i = 0
  /\ hist = <<>>
  /\ g_current_context = "root"
  /\ link["root"] = "nullptr"

\* ======================================================= stack allocation
\* The largest alignment requested of alligned_alloc.
MaxAlign == 32
Aligns == 0..MaxAlign
Sizes == {0, 1, stack_size}

\* auto r = posix_memalign(&ret, align, size)
alligned_alloc_memalign ==
  /\ At("main", "alligned_alloc")
  /\ LET m == posix_memalign(alloc.align, alloc.size, alloc.avail)
     IN  alloc' = [alloc EXCEPT !.r = m.r, !.ret = m.ret]
  /\ Goto("main", "alligned_alloc_check")
  /\ UNCHANGED <<cpu, this, prev, i, uc, stackmem, entry, param,
                 g_current_context, link, jmpbuf, out, hist, q, addr>>

\* The exception alligned_alloc throws for posix_memalign's result r.  On
\* EINVAL line 88 formats the message and constructs the std::runtime_error
\* before it throws: both allocate, and with the heap exhausted that
\* allocation throws std::bad_alloc instead.
alligned_alloc_thrown(r, small) ==
  IF r = "ENOMEM" THEN "bad_alloc"
  ELSE IF r = "EINVAL" THEN (IF small THEN "runtime_error" ELSE "bad_alloc")
  ELSE "none"

\* Every failure of posix_memalign reported as std::bad_alloc.
alligned_alloc_check_bad_alloc ==
  /\ At("main", "alligned_alloc_check")
  /\ alloc' = [alloc EXCEPT !.thrown = IF alloc.r = "0" THEN "none" ELSE "bad_alloc"]
  /\ Goto("main", IF alloc.r = "0" THEN "alligned_alloc_ret" ELSE "alligned_alloc_throw")
  /\ UNCHANGED <<cpu, this, prev, i, uc, stackmem, entry, param,
                 g_current_context, link, jmpbuf, out, hist, q, addr>>

\* if (r == ENOMEM) throw std::bad_alloc(); else if (r == EINVAL) throw
\* std::runtime_error(...); else { assert(r == 0); return ret; }
alligned_alloc_check ==
  /\ At("main", "alligned_alloc_check")
  /\ alloc' = [alloc EXCEPT !.thrown = alligned_alloc_thrown(alloc.r, alloc.small)]
  /\ Goto("main", IF alligned_alloc_thrown(alloc.r, alloc.small) = "none"
                  THEN "alligned_alloc_ret" ELSE "alligned_alloc_throw")
  /\ UNCHANGED <<cpu, this, prev, i, uc, stackmem, entry, param,
                 g_current_context, link, jmpbuf, out, hist, q, addr>>

alligned_alloc ==
  \/ alligned_alloc_memalign
  \/ alligned_alloc_check

\* A call of alligned_alloc(size, align) with any arguments, the block
\* available or not and, when it is not, the heap exhausted or not; or
\* main() at its first make_stack(stack_size).
AllocInit ==
  /\ cpu = "main"
  /\ \E l \in {"alligned_alloc", "main_make_stack"} :
       /\ pc = [s \in Stacks |-> IF s = "main" THEN l ELSE "unborn"]
       /\ IF l = "alligned_alloc"
          THEN \E a \in Aligns, sz \in Sizes, av \in BOOLEAN, sm \in BOOLEAN :
                 /\ av => sm
                 /\ alloc = [NoAlloc EXCEPT !.align = a, !.size = sz,
                                            !.avail = av, !.small = sm]
          ELSE alloc = NoAlloc
  /\ this = [s \in Stacks |-> "none"]
  /\ prev = [s \in Stacks |-> "none"]
  /\ i = 0
  /\ uc = NoContext
  /\ stackmem = [s \in FiberStacks |-> FALSE]
  /\ entry = [s \in FiberStacks |-> [f |-> "none", lo |-> 0, hi |-> 0, uc_link |-> "none"]]
  /\ param = [s \in FiberStacks |-> "none"]
  /\ g_current_context = "root"
  /\ link = [l \in Links |-> IF l = "root" THEN "nullptr" ELSE "indeterminate"]
  /\ jmpbuf = [l \in Links |-> Unset]
  /\ out = <<>>
  /\ hist = <<>>
  /\ q = [s \in Stacks |-> NullPtr]
  /\ addr = [l \in Links |-> Addr(l)]

AllocNext ==
  \/ alligned_alloc
  \/ make_stack

AllocSpec == AllocInit /\ [][AllocNext]_vars

\* The allocation call has finished, by returning or by throwing.
AllocDone ==
  \/ pc["main"] \in {"alligned_alloc_ret", "alligned_alloc_throw", "setup_getcontext"}
  \/ cpu = "aborted"

\* C13: a finished allocation has reported out-of-memory (std::bad_alloc)
\* when the memory was not available and invalid-argument
\* (std::runtime_error) when the allocator rejected the alignment (EINVAL);
\* when both hold at once it has reported one of the two; whenever it
\* reported an error no block was returned and none is held.
C13_AllocErrors ==
  AllocDone =>
    /\ (alloc.r = "EINVAL" /\ alloc.avail) => alloc.thrown = "runtime_error"
    /\ (~alloc.avail /\ alloc.r # "EINVAL") => alloc.thrown = "bad_alloc"
    /\ (~alloc.avail /\ alloc.r = "EINVAL") =>
         alloc.thrown \in {"bad_alloc", "runtime_error"}
    /\ alloc.r = "ENOMEM" => alloc.thrown = "bad_alloc"
    /\ alloc.thrown = "none" => alloc.ret = "block"
    /\ alloc.thrown # "none" =>
         /\ alloc.ret = "none"
         /\ \A s \in FiberStacks : ~stackmem[s]

\* alligned_alloc has rejected a non-power-of-two alignment while memory
\* was available.
C13_Witness ==
  /\ pc["main"] = "alligned_alloc_throw"
  /\ alloc.align = 24
  /\ alloc.avail
  /\ alloc.r = "EINVAL"
  /\ alloc.thrown = "runtime_error"
  /\ alloc.ret = "none"

\* ================================================================= end()
\* C14: end() on X sets g_current_context to X.link and jumps to the state
\* saved in X.link's jmp_buf; it writes neither X.jmpbuf nor X.link.
C14_End ==
  [][\A s \in Stacks :
       /\ At(s, "end_assign") =>
            /\ g_current_context' = link[this[s]]
            /\ cpu' = s
            /\ jmpbuf'[this[s]] = jmpbuf[this[s]]
            /\ link'[this[s]] = link[this[s]]
       /\ At(s, "end_longjmp") =>
            /\ g_current_context = link[this[s]]
            /\ g_current_context' = g_current_context
            /\ jmpbuf'[this[s]] = jmpbuf[this[s]]
            /\ link'[this[s]] = link[this[s]]
            /\ Live(jmpbuf[g_current_context]) =>
                 /\ cpu' = jmpbuf[g_current_context].sp
                 /\ pc'[cpu'] = jmpbuf[g_current_context].ip
                 /\ pc'[s] = "end_switched"]_vars

\* A fiber that had yielded once has ended: main continues after its
\* enter(), the fiber's jmp_buf still holds the state its leave() saved.
C14_Witness ==
  /\ At("main", "enter_ret")
  /\ pc["stack0"] = "end_switched"
  /\ LastEvent.op = "end"
  /\ LastEvent.this = "jmp0"
  /\ ~LastEvent.stale
  /\ g_current_context = "root"
  /\ link["jmp0"] = "root"
  /\ jmpbuf["jmp0"] = [sp |-> "stack0", ip |-> "leave_ret"]

\* ================================================== synchronous transfer
\* The labels a stack is parked at inside its own begin() or enter().
CallParks == {"begin_switched", "enter_switched"}

\* C15: the transfer of begin()/enter() takes the thread off the caller's
\* stack P, and while P is parked inside that call nothing of P changes
\* until a context whose link is P's link object makes the jump of its
\* leave() or end(), which resumes P after its call.
C15_Synchronous ==
  [][\A p \in Stacks :
       /\ (At(p, "begin_setcontext") \/ At(p, "enter_longjmp")) => cpu' # p
       /\ pc[p] \in CallParks =>
            \/ /\ cpu' # p
               /\ pc'[p] = pc[p]
               /\ this'[p] = this[p]
               /\ prev'[p] = prev[p]
               /\ p = "main" => (i' = i /\ uc' = uc)
            \/ /\ cpu \in Stacks
               /\ pc[cpu] \in {"leave_longjmp", "end_longjmp"}
               /\ link[this[cpu]] = LinkOf(p)
               /\ cpu' = p
               /\ pc'[p] = (IF pc[p] = "begin_switched" THEN "begin_ret" ELSE "enter_ret")]_vars

\* main is parked in its enter() of jmp[1], whose fiber is parked in its
\* enter() of jmp[0], whose fiber is about to jump out of leave().
C15_Witness ==
  /\ At("stack0", "leave_longjmp")
  /\ pc["main"] = "enter_switched"
  /\ pc["stack1"] = "enter_switched"
  /\ link["jmp0"] = "jmp1"
  /\ link["jmp1"] = "root"

\* ======================================================== state machine
\* The state of fiber context l when the stacks are at pcv, setup()'s
\* initial_context is ucv and the jmp_bufs are jbv: UNINITIALIZED until
\* makecontext has configured its stack, READY until setcontext starts it,
\* TERMINATED once it has jumped out of end(), RUNNING while its stack is not
\* parked in a switch, SUSPENDED while parked in leave() with that state
\* saved in its jmp_buf, and BROKEN otherwise (parked with no state to resume).
CtxStateOf(l, pcv, ucv, jbv) ==
  LET s == StackOfLink(l)
  IN  IF pcv[s] = "unborn"
      THEN (IF ucv.ss_sp = s /\ ucv.f # "none" THEN "READY" ELSE "UNINITIALIZED")
      ELSE IF pcv[s] = "end_switched" THEN "TERMINATED"
      ELSE IF pcv[s] \notin ParkLabels THEN "RUNNING"
      ELSE IF pcv[s] = "leave_switched" /\ jbv[l] = [sp |-> s, ip |-> "leave_ret"]
      THEN "SUSPENDED"
      ELSE "BROKEN"

CtxState(l) == CtxStateOf(l, pc, uc, jmpbuf)

\* The root context runs unless main's stack is parked in begin() or enter().
RootStateOf(pcv) == IF pcv["main"] \in ParkLabels THEN "SUSPENDED" ELSE "RUNNING"

\* The operation the running stack is making the step of, and its target.
StepIs(label, l) == cpu \in Stacks /\ pc[cpu] = label /\ this[cpu] = l

\* C16: a fiber context changes state only from UNINITIALIZED to READY
\* (makecontext), READY to RUNNING (begin), RUNNING to SUSPENDED (its
\* leave), SUSPENDED to RUNNING (an enter on it) and RUNNING to TERMINATED
\* (its end); the root context only alternates between RUNNING and SUSPENDED.
C16_Transitions ==
  [][/\ \A l \in Links \ {"root"} :
          LET a == CtxState(l)
              b == CtxStateOf(l, pc', uc', jmpbuf')
          IN  \/ a = b
              \/ a = "UNINITIALIZED" /\ b = "READY" /\ At("main", "setup_makecontext")
              \/ a = "READY" /\ b = "RUNNING" /\ StepIs("begin_setcontext", l)
              \/ a = "RUNNING" /\ b = "SUSPENDED" /\ StepIs("leave_longjmp", l)
                   /\ cpu = StackOfLink(l)
              \/ a = "SUSPENDED" /\ b = "RUNNING" /\ StepIs("enter_longjmp", l)
              \/ a = "RUNNING" /\ b = "TERMINATED" /\ StepIs("end_longjmp", l)
     /\ RootStateOf(pc) # RootStateOf(pc') =>
          <<RootStateOf(pc), RootStateOf(pc')>> \in
             {<<"RUNNING", "SUSPENDED">>, <<"SUSPENDED", "RUNNING">>}]_vars

\* jmp[0] has been launched, has yielded and has been entered again, while
\* jmp[1] waits suspended and the root is suspended in main's enter().
C16_Witness ==
  /\ CtxState("jmp0") = "RUNNING"
  /\ CtxState("jmp1") = "SUSPENDED"
  /\ RootStateOf(pc) = "SUSPENDED"
  /\ LastEvent.op = "enter"
  /\ LastEvent.this = "jmp0"
  /\ Len(out) >= 2

\* ==================================================== g_current_context
\* The statements of begin(), enter(), leave() and end() that assign
\* g_current_context.
CurrentWriters == {"begin_exchange", "enter_exchange", "leave_assign", "end_assign"}

\* C17: once init() has run, a step changes g_current_context only if it is
\* the assignment in begin(), enter(), leave() or end(); every other step of
\* main(), setup(), make_stack(), the trampolines and the fiber bodies
\* leaves it as it is.
C17_OnlyProtocolWrites ==
  [][(pc["main"] # "main_init" /\ g_current_context' # g_current_context) =>
        (cpu \in Stacks /\ pc[cpu] \in CurrentWriters)]_vars

\* leave() on jmp[1] has set g_current_context back to the root and main
\* continues after its enter().
C17_Witness ==
  /\ At("main", "enter_ret")
  /\ g_current_context = "root"
  /\ LastEvent.op = "leave"
  /\ LastEvent.this = "jmp1"
  /\ Len(out) >= 4

\* ============================================================ the chain
\* The number of contexts on the back-link chain that starts at link l.
RECURSIVE LinkDepth(_, _)
LinkDepth(l, fuel) ==
  IF l \notin Links THEN 0
  ELSE IF fuel = 0 THEN 1
  ELSE 1 + LinkDepth(link[l], fuel - 1)

BeginEnterLabels ==
  {"begin_exchange", "begin_link", "begin_setjmp", "begin_setcontext",
   "enter_exchange", "enter_link", "enter_setjmp", "enter_longjmp"}

LeaveLabels == {"leave_assign", "leave_setjmp", "leave_longjmp"}

\* C18: after init() the root's link is null; no begin() or enter() is
\* made on the root; whoever is in leave() is a fiber whose link is the
\* root, and every leave() made went back to main; the back-link chain from
\* the current context holds at most the root and one fiber.
C18_RootChain ==
  pc["main"] # "main_init" =>
    /\ link["root"] = "nullptr"
    /\ \A s \in Stacks : pc[s] \in BeginEnterLabels => this[s] \in Links \ {"root"}
    /\ \A k \in 1..Len(hist) :
         /\ hist[k].op \in {"begin", "enter"} => hist[k].this # "root"
         /\ hist[k].op = "leave" => hist[k].to = "main" /\ hist[k].from \in FiberStacks
    /\ \A s \in Stacks :
         (cpu = s /\ pc[s] \in LeaveLabels) =>
            /\ s \in FiberStacks
            /\ this[s] = LinkOf(s)
            /\ link[this[s]] = "root"
    /\ LinkDepth(g_current_context, n + 1) <= 2
    /\ Len(Chain(hist)) <= 2

\* The pong fiber, entered from main, is in its leave(): its link is the root.
C18_Witness ==
  /\ At("stack1", "leave_longjmp")
  /\ this["stack1"] = "jmp1"
  /\ link["jmp1"] = "root"
  /\ link["root"] = "nullptr"
  /\ LastEvent.op = "enter"
  /\ Len(out) >= 4

\* ======================================================== preconditions
EnterLabels == {"enter_exchange", "enter_link", "enter_setjmp", "enter_longjmp"}

\* Context l was launched by begin() and its latest transfer off its stack
\* was a leave().
LaunchedAndYielded(l) ==
  /\ \E k \in 1..Len(hist) : hist[k].op = "begin" /\ hist[k].this = l
  /\ \E k \in 1..Len(hist) : hist[k].from = StackOfLink(l)
  /\ LastOutOf(hist, StackOfLink(l)).op = "leave"

\* C19: in main()'s run every enter() is on a context that begin() launched
\* and that is suspended in leave() with its state saved; every longjmp
\* goes through a jmp_buf whose setjmp call is still suspended, so no jump
\* is stale and none faults; every leave() is on the current context.
C19_Preconditions ==
  /\ cpu # "crashed"
  /\ \A k \in 1..Len(hist) : ~hist[k].stale
  /\ \A s \in Stacks :
       /\ (cpu = s /\ pc[s] \in EnterLabels) =>
            /\ LaunchedAndYielded(this[s])
            /\ Yielded(this[s])
       /\ At(s, "enter_longjmp") => Live(jmpbuf[this[s]])
       /\ At(s, "leave_assign") => this[s] = g_current_context
       /\ At(s, "leave_longjmp") =>
            /\ g_current_context \in Links
            /\ Live(jmpbuf[g_current_context])

\* main is about to jump into jmp[1], which has yielded twice.
C19_Witness ==
  /\ At("main", "enter_longjmp")
  /\ this["main"] = "jmp1"
  /\ Yielded("jmp1")
  /\ LeaveCount(hist, "stack1") = 2

\* ============================================================= liveness
\* cout << "ping" << endl once out holds MaxOut lines: the line is written
\* and out, which keeps the first MaxOut lines, stays as it is.
fiber_print_unrecorded(s) ==
  /\ At(s, "fiber_print")
  /\ Len(out) >= MaxOut
  /\ Goto(s, "fiber_body")
  /\ UNCHANGED <<cpu, this, prev, i, uc, stackmem, entry, param,
                 g_current_context, link, jmpbuf, out, hist, q, alloc, addr>>

LiveNext ==
  \/ Next
  \/ \E s \in FiberStacks : fiber_print_unrecorded(s)

\* The program run without end: the thread always executes its next
\* statement.
LiveSpec == Init /\ [][LiveNext]_vars /\ WF_vars(LiveNext)

\* main() is in its second loop, for (i = 0;; i = (i + 1) % n) jmp[i].enter().
LoopLabels ==
  {"main_for2", "enter_exchange", "enter_link", "enter_setjmp", "enter_longjmp",
   "enter_switched", "enter_ret", "main_for2_next"}

InLoop == pc["main"] \in LoopLabels

\* C20: every enter() main makes in its second loop returns to main; once
\* in the loop main stays in it, and from any point of it each of the two
\* fibers is resumed from its leave() again; no allocated stack is released.
C20_Forever ==
  /\ At("main", "enter_exchange") ~> At("main", "enter_ret")
  /\ InLoop ~> At("stack0", "leave_ret")
  /\ InLoop ~> At("stack1", "leave_ret")
  /\ [][InLoop => InLoop']_vars
  /\ [][\A s \in FiberStacks : stackmem[s] => stackmem'[s]]_vars

\* main's enter() has returned after stdout holds more lines than out keeps
\* and more transfers were made than hist keeps.
C20_Witness ==
  /\ At("main", "enter_ret")
  /\ Len(out) = MaxOut
  /\ Len(hist) = MaxHist
  /\ \A s \in FiberStacks : stackmem[s] /\ pc[s] = "leave_switched"

====
